---- MODULE Spec2Model ----
(***************************************************************************)
(* Word rarity analyzer (word_rarity_analyzer.py): word_rarity scores one  *)
(* word against a frequency oracle, analyze_rarity tokenizes a text,       *)
(* scores every distinct word, sorts the pairs and averages the scores,    *)
(* main runs analyze_rarity on a text and prints the report or the error.  *)
(*                                                                         *)
(* A string is a sequence of characters; a character is written by name    *)
(* ("a", "acute" for U+0301 COMBINING ACUTE ACCENT, "tm_sign" for U+2122   *)
(* TRADE MARK SIGN, ...) and ord gives its code point.  A Python float is  *)
(* a binary floating-point number; the model keeps the rounding of float   *)
(* arithmetic with a significand of MantBits bits instead of 53, every     *)
(* number being a whole count of 2^-FracBits.                              *)
(***************************************************************************)
EXTENDS Integers, Sequences, FiniteSets, TLC

(***************************************************************************)
(* Bounds of the model.                                                    *)
(***************************************************************************)
\* longest text drawn character by character
MaxLen == 3
\* most words of a text drawn word by word
MaxWords == 3
\* bits of a float's significand (53 in Python)
MantBits == 4
\* binary digits kept after the point
FracBits == 4

(***************************************************************************)
(* Program constants.                                                      *)
(***************************************************************************)
\* len(word) > 50
MaxWordLen == 50
\* max_length: int = 100000
DefaultMaxLength == 100000
\* the top of the rarity scale: 8 - zipf, min(rarity_score, 8)
MaxRarity == 8

(***************************************************************************)
(* Characters.                                                             *)
(***************************************************************************)
\* the characters a raw input is drawn from
Alphabet ==
  {"a", "b", "A", "1", "_", " ", ",", "acute", "tm_sign", "fullwidth_low_line"}

\* the characters normalization and lowercasing add to them
Chars ==
  Alphabet \cup {"T", "M", "t", "m", "a_acute", "A_acute", "M_acute", "m_acute"}

\* the code point of a character: Python compares strings by code point
ord ==
  [c \in Chars |->
     CASE c = " " -> 32
       [] c = "," -> 44
       [] c = "1" -> 49
       [] c = "A" -> 65
       [] c = "M" -> 77
       [] c = "T" -> 84
       [] c = "_" -> 95
       [] c = "a" -> 97
       [] c = "b" -> 98
       [] c = "m" -> 109
       [] c = "t" -> 116
       [] c = "A_acute" -> 193
       [] c = "a_acute" -> 225
       [] c = "acute" -> 769
       [] c = "M_acute" -> 7742
       [] c = "m_acute" -> 7743
       [] c = "tm_sign" -> 8482
       [] c = "fullwidth_low_line" -> 65343]

\* \d of the re module: a decimal digit (category Nd)
IsDigit(c) == c = "1"

\* [^\W\d_]: a word character that is neither a digit nor the underscore,
\* which is a letter (categories L*)
IsLetter(c) ==
  c \in {"a", "b", "A", "T", "M", "t", "m",
         "a_acute", "A_acute", "M_acute", "m_acute"}

\* \w of the re module: letters, digits and the underscore; the space, the
\* comma, the combining accent (Mn), the trade mark sign (So) and the
\* fullwidth low line (U+FF3F, Pc) are \W
IsWordChar(c) == IsLetter(c) \/ IsDigit(c) \/ c = "_"

(***************************************************************************)
(* unicodedata.normalize('NFKC', s): compatibility decomposition, then     *)
(* canonical composition of a letter with the accent that follows it.      *)
(***************************************************************************)
\* the compatibility decomposition of one character
Decompose(c) ==
  CASE c = "tm_sign" -> <<"T", "M">>
    [] c = "fullwidth_low_line" -> <<"_">>
    [] c = "a_acute" -> <<"a", "acute">>
    [] c = "A_acute" -> <<"A", "acute">>
    [] c = "M_acute" -> <<"M", "acute">>
    [] c = "m_acute" -> <<"m", "acute">>
    [] OTHER -> <<c>>

\* every character decomposed, in place: the decomposition of a string is
\* that of its first half followed by that of its second half
RECURSIVE DecomposeAll(_)
DecomposeAll(s) ==
  IF s = <<>> THEN <<>>
  ELSE IF Len(s) = 1 THEN Decompose(s[1])
  ELSE LET half == Len(s) \div 2
       IN  DecomposeAll(SubSeq(s, 1, half))
             \o DecomposeAll(SubSeq(s, half + 1, Len(s)))

\* the letters that have a precomposed form with the acute accent
Composable == {"a", "A", "M", "m"}

Composed(c) ==
  CASE c = "a" -> "a_acute"
    [] c = "A" -> "A_acute"
    [] c = "M" -> "M_acute"
    [] c = "m" -> "m_acute"

\* the accent at i goes into the letter before it
Absorbed(s, i) == i > 1 /\ s[i] = "acute" /\ s[i - 1] \in Composable

IsKept(mark) == mark[2]

\* every letter that takes the accent behind it composed, and the accents
\* taken dropped
ComposeAll(s) ==
  LET marks == [i \in 1..Len(s) |->
                  <<IF i < Len(s) /\ Absorbed(s, i + 1)
                    THEN Composed(s[i]) ELSE s[i],
                    ~Absorbed(s, i)>>]
      kept == SelectSeq(marks, IsKept)
  IN  [i \in 1..Len(kept) |-> kept[i][1]]

NFKC(s) == ComposeAll(DecomposeAll(s))

(***************************************************************************)
(* str.lower()                                                             *)
(***************************************************************************)
LowerChar(c) ==
  CASE c = "A" -> "a"
    [] c = "T" -> "t"
    [] c = "M" -> "m"
    [] c = "A_acute" -> "a_acute"
    [] c = "M_acute" -> "m_acute"
    [] OTHER -> c

Lower(s) == [i \in 1..Len(s) |-> LowerChar(s[i])]

(***************************************************************************)
(* re.findall(r'\b[^\W\d_]+\b', s): the matches, left to right.            *)
(***************************************************************************)
\* the pattern without its \b: r'[^\W\d_]+'
AnyPosition(s, i) == TRUE

\* \b before position i (1..Len(s)+1): exactly one of the characters on
\* its two sides is a word character
Boundary(s, i) ==
  LET before == i > 1 /\ IsWordChar(s[i - 1])
      after == i <= Len(s) /\ IsWordChar(s[i])
  IN  before # after

\* the end of the longest run of letters that starts at i (i - 1 if none)
RunEnd(s, i) ==
  CHOOSE j \in (i - 1)..Len(s) :
    /\ \A k \in i..j : IsLetter(s[k])
    /\ j = Len(s) \/ ~IsLetter(s[j + 1])

\* the end of the match at i: [^\W\d_]+ takes the longest run and gives
\* letters back until \b holds behind it; 0 when there is no match at i
MatchEnd(s, i) ==
  LET ends == {j \in i..RunEnd(s, i) : Boundary(s, j + 1)}
  IN  IF Boundary(s, i) /\ ends # {}
      THEN CHOOSE j \in ends : \A k \in ends : k <= j
      ELSE 0

\* the matches from position i on: the first one starts at the first
\* position that has a match, the next ones follow behind its end
RECURSIVE FindAllFrom(_, _)
FindAllFrom(s, i) ==
  LET starts == {k \in i..Len(s) : MatchEnd(s, k) # 0}
  IN  IF starts = {} THEN <<>>
      ELSE LET k == CHOOSE x \in starts : \A y \in starts : x <= y
               j == MatchEnd(s, k)
           IN  <<SubSeq(s, k, j)>> \o FindAllFrom(s, j + 1)

FindAll(s) == FindAllFrom(s, 1)

\* set(words)
ToSet(seq) == {seq[i] : i \in DOMAIN seq}

(***************************************************************************)
(* Float arithmetic.  A number is a whole count of 1/Scale; a float is a   *)
(* number m * 2^k with m < 2^MantBits, and every operation rounds its      *)
(* exact result to the nearest float, ties to the even significand.        *)
(***************************************************************************)
Scale == 2 ^ FracBits

\* the float 8.0
Eight == MaxRarity * Scale

\* the spacing of the floats around num / den >= 0
RECURSIVE Grid(_, _, _)
Grid(num, den, g) ==
  IF num < (2 ^ MantBits) * g * den THEN g ELSE Grid(num, den, 2 * g)

\* num / den >= 0 rounded to a whole number, ties to even
RoundHalfEven(num, den) ==
  LET q == num \div den
      r == num % den
  IN  IF 2 * r < den THEN q
      ELSE IF 2 * r > den THEN q + 1
      ELSE IF q % 2 = 0 THEN q ELSE q + 1

FRoundAbs(num, den) ==
  LET g == Grid(num, den, 1) IN g * RoundHalfEven(num, den * g)

\* the float nearest to num / den (den > 0)
FRound(num, den) ==
  IF num < 0 THEN 0 - FRoundAbs(0 - num, den) ELSE FRoundAbs(num, den)

\* x + y, x - y and x / n of floats
FAdd(x, y) == FRound(x + y, 1)
FSub(x, y) == FRound(x - y, 1)
FDiv(x, n) == FRound(x, n)

\* sum(values): from 0, left to right
RECURSIVE FSum(_)
FSum(values) ==
  IF values = <<>> THEN 0
  ELSE FAdd(FSum(SubSeq(values, 1, Len(values) - 1)), values[Len(values)])

(***************************************************************************)
(* The frequency oracle (wordfreq): the language codes it supports and     *)
(* the popularities zipf_frequency may answer, among them answers below 0  *)
(* and above 8.                                                            *)
(***************************************************************************)
SupportedLanguages == {"en"}

Languages == SupportedLanguages \cup {"zz"}

\* -1.0, 4.0, 7.5 and 9.0
Popularities == {0 - Scale, 4 * Scale, (15 * Scale) \div 2, 9 * Scale}

(***************************************************************************)
(* word_rarity(word, language)                                             *)
(***************************************************************************)
\* language not in available_languages()
UnsupportedLanguage(lang) == lang \notin SupportedLanguages

\* the digit test without its +: r'^\d$'
DigitsOnlySingle(word) == Len(word) = 1 /\ IsDigit(word[1])

\* re.match(r'^\d+$', word)
DigitsOnly(word) ==
  /\ word # <<>>
  /\ \A i \in DOMAIN word : IsDigit(word[i])

\* the length test against 51
TooLongWordOffByOne(word) == Len(word) > MaxWordLen + 1

\* len(word) > 50
TooLongWord(word) == Len(word) > MaxWordLen

\* the clamp without its floor: min(rarity_score, 8)
ClampUpperOnly(rarity_score) ==
  IF rarity_score < Eight THEN rarity_score ELSE Eight

\* max(0, min(rarity_score, 8))
Clamp(rarity_score) ==
  LET low == IF rarity_score < Eight THEN rarity_score ELSE Eight
  IN  IF low > 0 THEN low ELSE 0

\* what a call leaves behind: the error it raised ("" when it returned),
\* what it returned, the words it handed to word_rarity (word -> how many
\* times) and the queries it sent to zipf_frequency
Raise(error) ==
  [raised |-> error, score |-> 0, results |-> <<>>, avg |-> 0,
   scored |-> <<>>, asked |-> {}]

ReturnScore(score, asked) ==
  [raised |-> "", score |-> score, results |-> <<>>, avg |-> 0,
   scored |-> <<>>, asked |-> asked]

\* oracle: the answer of zipf_frequency to each query <<word, language>>
word_rarity(word, lang, oracle) ==
  IF UnsupportedLanguage(lang) THEN Raise("Unsupported language")
  ELSE LET w == NFKC(word)
       IN  IF DigitsOnly(w) THEN ReturnScore(Eight, {})
           ELSE IF TooLongWord(w) THEN ReturnScore(Eight, {})
           ELSE LET zipf == oracle[<<w, lang>>]
                    rarity_score == FSub(Eight, zipf)
                IN  ReturnScore(Clamp(rarity_score), {<<w, lang>>})

\* the queries word_rarity(word, lang) sends to the oracle
Queries(word, lang) ==
  LET w == NFKC(word)
  IN  IF UnsupportedLanguage(lang) \/ DigitsOnly(w) \/ TooLongWord(w)
      THEN {}
      ELSE {<<w, lang>>}

(***************************************************************************)
(* analyze_rarity(text, language, max_length)                              *)
(***************************************************************************)
\* the length guard with >= for >
InputTooLongAtLimit(t, limit) == Len(t) >= limit

\* len(text) > max_length
InputTooLong(t, limit) == Len(t) > limit

\* s.split(' ') without its empty strings
SplitWords(s) ==
  LET starts == {i \in 1..Len(s) : s[i] # " " /\ (i = 1 \/ s[i - 1] = " ")}
      EndOf(i) == CHOOSE j \in i..Len(s) :
                    /\ \A k \in i..j : s[k] # " "
                    /\ j = Len(s) \/ s[j + 1] = " "
  IN  [n \in 1..Cardinality(starts) |->
         LET i == CHOOSE x \in starts :
                    Cardinality({y \in starts : y <= x}) = n
         IN  SubSeq(s, i, EndOf(i))]

\* words taken by splitting at the spaces instead of matching letters
CandidatesBySplit(t) == SplitWords(Lower(NFKC(t)))

\* words: the text normalized, lowercased and matched
Candidates(t) == FindAll(Lower(NFKC(t)))

\* the sequences that enumerate a set, each member once
Enumerations(S) ==
  {e \in [1..Cardinality(S) -> S] : \A i, j \in DOMAIN e : e[i] = e[j] => i = j}

\* the loop over words itself, without set()
IterationOrdersOfList(words) == {words}

\* for word in set(words): a set of strings is iterated in the order of the
\* hashes of its members, which the interpreter seeds anew at every start
IterationOrders(words) == Enumerations(ToSet(words))

\* word_rarity_dict[word] = rarity: a dict keeps its keys in the order of
\* their first assignment; items is its sequence of <<word, rarity>>
DictSet(items, word, rarity) ==
  IF \E i \in DOMAIN items : items[i][1] = word
  THEN [i \in DOMAIN items |->
          IF items[i][1] = word THEN <<word, rarity>> ELSE items[i]]
  ELSE Append(items, <<word, rarity>>)

\* the dict after the loop over order[1..n]
RECURSIVE ScoreAll(_, _, _, _)
ScoreAll(order, n, lang, oracle) ==
  IF n = 0 THEN <<>>
  ELSE DictSet(ScoreAll(order, n - 1, lang, oracle), order[n],
               word_rarity(order[n], lang, oracle).score)

\* s < t for two strings: by code point, a proper prefix first
RECURSIVE StrLess(_, _)
StrLess(s, t) ==
  IF t = <<>> THEN FALSE
  ELSE IF s = <<>> THEN TRUE
  ELSE IF ord[Head(s)] # ord[Head(t)] THEN ord[Head(s)] < ord[Head(t)]
  ELSE StrLess(Tail(s), Tail(t))

\* the key without the word: key=lambda x: -x[1]
KeyLessByScore(x, y) == 0 - x[2] < 0 - y[2]

\* key=lambda x: (-x[1], x[0]): whether the key of x is below the key of y
KeyLess(x, y) ==
  \/ 0 - x[2] < 0 - y[2]
  \/ 0 - x[2] = 0 - y[2] /\ StrLess(x[1], y[1])

\* sorted(...) is stable: an item goes behind the items whose key is not
\* above its own, those that came before it in the dict included
Insert(sorted, x) ==
  LET k == Cardinality({i \in DOMAIN sorted : ~KeyLess(x, sorted[i])})
  IN  SubSeq(sorted, 1, k) \o <<x>> \o SubSeq(sorted, k + 1, Len(sorted))

RECURSIVE Sorted(_)
Sorted(items) ==
  IF items = <<>> THEN <<>>
  ELSE Insert(Sorted(SubSeq(items, 1, Len(items) - 1)), items[Len(items)])

\* the average with // for /
AverageFloorDiv(total_rarity, n) ==
  IF n # 0 THEN Scale * ((total_rarity \div n) \div Scale) ELSE 0

\* total_rarity / len(word_rarity_dict) if word_rarity_dict else 0
Average(total_rarity, n) == IF n # 0 THEN FDiv(total_rarity, n) ELSE 0

\* how many times word_rarity was called with each word
Tally(order) ==
  [w \in ToSet(order) |-> Cardinality({i \in DOMAIN order : order[i] = w})]

\* the loop over set(words), iterated in the order given, the sort and the
\* average
ScoreSortAverage(lang, oracle, order) ==
  LET word_rarity_dict == ScoreAll(order, Len(order), lang, oracle)
      values == [i \in DOMAIN word_rarity_dict |-> word_rarity_dict[i][2]]
      total_rarity == FSum(values)
  IN  [raised |-> "", score |-> 0,
       results |-> Sorted(word_rarity_dict),
       avg |-> Average(total_rarity, Len(word_rarity_dict)),
       scored |-> Tally(order),
       asked |-> UNION {Queries(order[i], lang) : i \in DOMAIN order}]

\* analyze_rarity with its two guards in the other order
analyze_rarity_length_first(t, lang, limit, oracle, order) ==
  IF InputTooLong(t, limit) THEN Raise("Input text is too long")
  ELSE IF UnsupportedLanguage(lang) THEN Raise("Unsupported language")
  ELSE ScoreSortAverage(lang, oracle, order)

\* order: the order in which set(words) is iterated
analyze_rarity(t, lang, limit, oracle, order) ==
  IF UnsupportedLanguage(lang) THEN Raise("Unsupported language")
  ELSE IF InputTooLong(t, limit) THEN Raise("Input text is too long")
  ELSE ScoreSortAverage(lang, oracle, order)

\* the words analyze_rarity reaches its loop with
WordsOf(t, lang, limit) ==
  IF UnsupportedLanguage(lang) \/ InputTooLong(t, limit)
  THEN <<>>
  ELSE Candidates(t)

(***************************************************************************)
(* main(file_path, language, text): the text comes from the file, from     *)
(* the argument or from the lines typed; stdout is the sequence of the     *)
(* print calls, each the pieces of its f-string.                           *)
(***************************************************************************)
\* not text.strip(): nothing but whitespace
Blank(t) == \A i \in DOMAIN t : t[i] = " "

\* f"{x:.2f}" of x >= 0: the hundredths nearest to the exact value of the
\* float, ties to even
Format2f(x) == RoundHalfEven(100 * x, Scale)

\* print(f"Error: {str(e)}")
PrintError(message) == <<"Error: ", message>>

\* the three prints behind a call that returned
PrintReport(results, avg_rarity) ==
  << <<"\nAverage Rarity Score: ", Format2f(avg_rarity)>>,
     <<"\nAll Words Sorted by Rarity:">> >>
    \o [i \in DOMAIN results |->
          <<"Word: ", results[i][1], " | Rarity Score: ",
            Format2f(results[i][2])>>]

\* what main leaves behind: the exception that left it ("" when it
\* returned), what it printed and the queries sent to zipf_frequency
Exit(error, stdout, asked) ==
  [raised |-> error, stdout |-> stdout, asked |-> asked]

\* main without its try: the error leaves main
main_without_try(t, lang, oracle, order) ==
  IF Blank(t) THEN Exit("", <<PrintError("Empty input")>>, {})
  ELSE LET call == analyze_rarity(t, lang, DefaultMaxLength, oracle, order)
       IN  IF call.raised # "" THEN Exit(call.raised, <<>>, {})
           ELSE Exit("", PrintReport(call.results, call.avg), call.asked)

\* main once it has its text; analyze_rarity is called with the default
\* max_length
main(t, lang, oracle, order) ==
  IF Blank(t) THEN Exit("", <<PrintError("Empty input")>>, {})
  ELSE LET call == analyze_rarity(t, lang, DefaultMaxLength, oracle, order)
       IN  IF call.raised # ""
           THEN Exit("", <<PrintError(call.raised)>>, {})
           ELSE Exit("", PrintReport(call.results, call.avg), call.asked)

\* the words main's call of analyze_rarity reaches its loop with
MainWordsOf(t, lang) ==
  IF Blank(t) THEN <<>> ELSE WordsOf(t, lang, DefaultMaxLength)

(***************************************************************************)
(* Inputs.                                                                 *)
(***************************************************************************)
SeqsUpTo(S, n) == UNION {[1..k -> S] : k \in 0..n}

\* s * n
Repeat(s, n) == [i \in 1..(n * Len(s)) |-> s[((i - 1) % Len(s)) + 1]]

RECURSIVE Join(_)
Join(ws) ==
  IF Len(ws) = 1 THEN ws[1]
  ELSE Join(SubSeq(ws, 1, Len(ws) - 1)) \o <<" ">> \o ws[Len(ws)]

\* every string of at most MaxLen characters
CharTexts == SeqsUpTo(Alphabet \ {"b", "acute", "fullwidth_low_line"}, MaxLen)

Vocabulary == {<<"a">>, <<"b">>, <<"A">>, <<"a", "b">>}

\* up to MaxWords words with a space between them
WordLists == {Join(ws) : ws \in SeqsUpTo(Vocabulary, MaxWords) \ {<<>>}}

\* one piece repeated up to and beyond MaxWordLen characters, before or
\* after normalization: a letter, a digit, a letter with its accent apart
\* (one character when normalized) and the trade mark sign (two)
LongTexts ==
  {Repeat(piece, n) :
     piece \in {<<"a">>, <<"1">>, <<"a", "acute">>, <<"tm_sign">>},
     n \in {MaxWordLen \div 2, MaxWordLen \div 2 + 1, MaxWordLen, MaxWordLen + 1}}

\* two tokens, of letters or of letters with a digit or an underscore
\* beside them, with a space, a comma or a fullwidth low line in between
Tokens ==
  {<<"a">>, <<"A">>, <<"b">>, <<"a", "1">>, <<"1", "a">>, <<"a", "_", "b">>}

TokenTexts ==
  {first \o <<sep>> \o second :
     first \in Tokens, second \in Tokens,
     sep \in {" ", ",", "fullwidth_low_line"}}

Texts == CharTexts \cup WordLists \cup LongTexts \cup TokenTexts

\* texts beyond the default max_length: one long word, and a word and a
\* space over and over
VeryLongTexts ==
  {Repeat(<<"a">>, DefaultMaxLength + 1),
   Repeat(<<"a", " ">>, DefaultMaxLength \div 2 + 1)}

\* the texts main is run on
MainTexts == CharTexts \cup VeryLongTexts

\* one below the length of the text, its length, and the default
MaxLengths(t) == {Len(t) - 1, Len(t), DefaultMaxLength}

(***************************************************************************)
(* State: the entry point the caller uses and the arguments it passes, the *)
(* answers the oracle has given (it answers a query as it answered it      *)
(* before), and the last call.                                             *)
(***************************************************************************)
VARIABLES entry, text, language, max_length, zipf_frequency, last

vars == <<entry, text, language, max_length, zipf_frequency, last>>

NoCall == [fn |-> "none"] @@ Raise("")

Init ==
  /\ entry \in {"word_rarity", "analyze_rarity", "main"}
  /\ text \in IF entry = "main" THEN MainTexts ELSE Texts
  /\ language \in Languages
  /\ max_length \in
       IF entry = "analyze_rarity" THEN MaxLengths(text) ELSE {DefaultMaxLength}
  /\ zipf_frequency = <<>>
  /\ last = NoCall

\* the oracle once it has answered the queries in new
Answered(new, answers) ==
  [q \in DOMAIN zipf_frequency \cup new |->
     IF q \in DOMAIN zipf_frequency THEN zipf_frequency[q] ELSE answers[q]]

\* word_rarity(text, language)
WordRarity ==
  /\ entry = "word_rarity"
  /\ LET new == Queries(text, language) \ DOMAIN zipf_frequency
     IN  \E answers \in [new -> Popularities] :
           LET oracle == Answered(new, answers)
           IN  /\ last' = [fn |-> "word_rarity"]
                            @@ word_rarity(text, language, oracle)
               /\ zipf_frequency' = oracle
  /\ UNCHANGED <<entry, text, language, max_length>>

\* analyze_rarity(text, language, max_length)
AnalyzeRarity ==
  /\ entry = "analyze_rarity"
  /\ LET words == WordsOf(text, language, max_length)
         new == UNION {Queries(w, language) : w \in ToSet(words)}
                  \ DOMAIN zipf_frequency
     IN  \E order \in IterationOrders(words) :
         \E answers \in [new -> Popularities] :
           LET oracle == Answered(new, answers)
           IN  /\ last' = [fn |-> "analyze_rarity"]
                            @@ analyze_rarity(text, language, max_length,
                                              oracle, order)
               /\ zipf_frequency' = oracle
  /\ UNCHANGED <<entry, text, language, max_length>>

\* main(language=language, text=text)
Main ==
  /\ entry = "main"
  /\ LET words == MainWordsOf(text, language)
         new == UNION {Queries(w, language) : w \in ToSet(words)}
                  \ DOMAIN zipf_frequency
     IN  \E order \in IterationOrders(words) :
         \E answers \in [new -> Popularities] :
           LET oracle == Answered(new, answers)
           IN  /\ last' = [fn |-> "main"]
                            @@ main(text, language, oracle, order)
               /\ zipf_frequency' = oracle
  /\ UNCHANGED <<entry, text, language, max_length>>

Next == WordRarity \/ AnalyzeRarity \/ Main

Spec == Init /\ [][Next]_vars

(***************************************************************************)
(* Properties.                                                             *)
(***************************************************************************)
Returned(fn) == last.fn = fn /\ last.raised = ""

Raised(fn, error) == last.fn = fn /\ last.raised = error

Supported == ~UnsupportedLanguage(language)

\* 8 - p cut to [0, 8]
Clamped(p) ==
  IF Eight - p < 0 THEN 0
  ELSE IF Eight - p > Eight THEN Eight
  ELSE FSub(Eight, p)

ResultWords == {last.results[i][1] : i \in DOMAIN last.results}

\* C1: word_rarity returns a score in [0, 8], which is 8 - p cut to [0, 8]
\* when the oracle answered p, and every score analyze_rarity returns is in
\* [0, 8] and is the cut 8 - p of the answer to its word.
RarityInRange ==
  /\ Returned("word_rarity") =>
       /\ 0 <= last.score /\ last.score <= Eight
       /\ \A q \in last.asked : last.score = Clamped(zipf_frequency[q])
  /\ Returned("analyze_rarity") =>
       \A i \in DOMAIN last.results :
         /\ 0 <= last.results[i][2] /\ last.results[i][2] <= Eight
         /\ \A q \in Queries(last.results[i][1], language) :
              last.results[i][2] = Clamped(zipf_frequency[q])

\* analyze_rarity returned a score whose popularity was below 0 and one
\* whose popularity was above 8
RarityInRangeWitness ==
  /\ Returned("analyze_rarity")
  /\ \E q \in last.asked : zipf_frequency[q] < 0
  /\ \E q \in last.asked : zipf_frequency[q] > Eight

\* C2: every two neighbours of the returned sequence are in descending
\* order of score, and in ascending order of word when the scores are equal.
SortInvariant ==
  Returned("analyze_rarity") =>
    \A i \in 1..(Len(last.results) - 1) :
      LET x == last.results[i]
          y == last.results[i + 1]
      IN  x[2] > y[2] \/ (x[2] = y[2] /\ StrLess(x[1], y[1]))

\* three words or more returned, two neighbours tied and two not
SortInvariantWitness ==
  /\ Returned("analyze_rarity")
  /\ Len(last.results) >= 3
  /\ \E i \in 1..(Len(last.results) - 1) :
       last.results[i][2] = last.results[i + 1][2]
  /\ \E i \in 1..(Len(last.results) - 1) :
       last.results[i][2] > last.results[i + 1][2]

\* C3: the returned sequence holds one pair for each distinct lowercased
\* candidate of the text and no word twice, and word_rarity was called once
\* with each of them.
OnePairPerWord ==
  Returned("analyze_rarity") =>
    LET distinct == ToSet(Candidates(text))
    IN  /\ ResultWords = distinct
        /\ Len(last.results) = Cardinality(distinct)
        /\ DOMAIN last.scored = distinct
        /\ \A w \in distinct : last.scored[w] = 1

\* a text with "a" and "A" and more candidates than distinct words, two of
\* them returned
OnePairPerWordWitness ==
  /\ Returned("analyze_rarity")
  /\ {"a", "A"} \subseteq ToSet(text)
  /\ Len(Candidates(text)) > Len(last.results)
  /\ Len(last.results) = 2

\* C4: the average is the sum of the returned scores, added in one order or
\* another, divided by their number, and 0 when the sequence is empty.
AverageIsMean ==
  Returned("analyze_rarity") =>
    LET n == Len(last.results)
    IN  IF n = 0 THEN last.avg = 0
        ELSE \E e \in Enumerations(1..n) :
               last.avg = FDiv(FSum([i \in 1..n |-> last.results[e[i]][2]]), n)

\* a word occurs twice in the text and the average is neither 0 nor one of
\* the scores
AverageIsMeanWitness ==
  /\ Returned("analyze_rarity")
  /\ Len(Candidates(text)) > Len(last.results)
  /\ last.avg # 0
  /\ \A i \in DOMAIN last.results : last.results[i][2] # last.avg

\* C5: with a supported language analyze_rarity raises the too-long error
\* exactly when the text as passed has more than max_length characters, and
\* then no word was scored and no query sent.
LengthGuard ==
  (last.fn = "analyze_rarity" /\ Supported) =>
    /\ last.raised = "Input text is too long" <=> Len(text) > max_length
    /\ last.raised = "Input text is too long" =>
         /\ last.results = <<>>
         /\ DOMAIN last.scored = {}
         /\ last.asked = {}

\* a text of exactly max_length characters, longer when normalized, was
\* analysed
LengthGuardWitness ==
  /\ Returned("analyze_rarity")
  /\ Len(text) = max_length
  /\ Len(NFKC(text)) > max_length
  /\ last.results # <<>>

\* C6: with an unsupported language both functions raise the unsupported
\* language error, whatever the word or the text, and the oracle is never
\* queried.
LanguageGuard ==
  (last.fn \in {"word_rarity", "analyze_rarity"} /\ ~Supported) =>
    /\ last.raised = "Unsupported language"
    /\ last.asked = {}
    /\ DOMAIN last.scored = {}
    /\ DOMAIN zipf_frequency = {}

\* analyze_rarity was called with an unsupported language on a text longer
\* than max_length
LanguageGuardWitness ==
  /\ Raised("analyze_rarity", "Unsupported language")
  /\ Len(text) > max_length

DigitsAreMaxRarity ==
  (Returned("word_rarity") /\ text # <<>>
     /\ \A i \in DOMAIN text : IsDigit(text[i])) =>
    last.score = Eight /\ last.asked = {}

\* word_rarity was called with more than one digit and at most 50
DigitsAreMaxRarityWitness ==
  /\ Returned("word_rarity")
  /\ Len(text) > 1 /\ Len(text) <= MaxWordLen
  /\ \A i \in DOMAIN text : IsDigit(text[i])

SameResultEveryCall ==
  [][(last.fn = "analyze_rarity" /\ last'.fn = "analyze_rarity") =>
       /\ last'.raised = last.raised
       /\ last'.results = last.results
       /\ last'.avg = last.avg]_vars

\* C11: when main has a text that is not blank and analyze_rarity raises,
\* for the language or for the length, main returns without an exception
\* and has printed one line, "Error: " and the message of the error, and
\* neither the average nor a word.
MainCatchesErrors ==
  (last.fn = "main" /\ ~Blank(text)
     /\ (~Supported \/ Len(text) > DefaultMaxLength)) =>
    /\ last.raised = ""
    /\ last.stdout =
         <<PrintError(IF ~Supported THEN "Unsupported language"
                      ELSE "Input text is too long")>>
    /\ last.asked = {}

\* main was run on a text of more than 100000 characters in a supported
\* language and printed the too-long error
MainCatchesErrorsWitness ==
  /\ last.fn = "main"
  /\ Supported
  /\ Len(text) > DefaultMaxLength
  /\ last.stdout = <<PrintError("Input text is too long")>>

\* the maximal runs of letters of s, as <<first, last>> positions, that have
\* neither a digit nor an underscore beside them
CleanRuns(s) ==
  {<<i, RunEnd(s, i)>> :
     i \in {k \in 1..Len(s) :
              /\ IsLetter(s[k])
              /\ k = 1 \/ ~IsWordChar(s[k - 1])
              /\ RunEnd(s, k) = Len(s) \/ ~IsWordChar(s[RunEnd(s, k) + 1])}}

\* the maximal runs of letters of s that have a digit or an underscore
\* beside them
MixedRuns(s) ==
  {<<i, RunEnd(s, i)>> :
     i \in {k \in 1..Len(s) :
              /\ IsLetter(s[k])
              /\ k = 1 \/ ~IsLetter(s[k - 1])
              /\ \/ k > 1 /\ IsWordChar(s[k - 1])
                 \/ RunEnd(s, k) < Len(s) /\ IsWordChar(s[RunEnd(s, k) + 1])}}

\* whitespace and punctuation (Zs, Po, Pc), the underscore apart
IsDelimiter(c) == c \in {" ", ",", "fullwidth_low_line"}

\* the maximal runs of letters of s between two delimiters or ends of s
DelimitedRuns(s) ==
  {r \in CleanRuns(s) :
     /\ r[1] = 1 \/ IsDelimiter(s[r[1] - 1])
     /\ r[2] = Len(s) \/ IsDelimiter(s[r[2] + 1])}

====
